---- MODULE Spec2Model ----
(***************************************************************************)
(* A model of the database-evaluation harness:                             *)
(*   scripts/benchmark.ts        DatabaseBenchmark and its main()          *)
(*   scripts/schema-generator.ts generateSchema, mockSchema, generateSQL   *)
(*   workers/api.ts              the fetch handler                         *)
(*                                                                         *)
(* Asynchronous functions are cut at their awaits: a backend call is       *)
(* issued by one step and settled (resolved or rejected) by another.       *)
(* Numbers are integers; a quotient the code computes in floating point    *)
(* is kept as the pair [num, den].  Text is a TLC string, or a sequence of *)
(* lexemes where the code scans it.                                        *)
(***************************************************************************)
EXTENDS Integers, Sequences, FiniteSets, TLC

VARIABLES
    pc,           \* benchmark.ts: position of the control flow (main or a test driver)
    opIdx,        \* position inside the running workload runner (next measureOperation)
    meas,         \* the measureOperation invocation that is awaiting fn(), or NoMeas
    inflight,     \* backend calls issued and not yet settled
    now,          \* Date.now()
    results,      \* DatabaseBenchmark.results
    invocations,  \* number of measureOperation invocations made so far
    report,       \* what the last printResults printed
    mongoOpen,    \* main's mongoClient is connected
    coldOpen,     \* cold-start MongoClients connected and not closed
    gpc,          \* schema-generator.ts: position of main
    apiCalls,     \* number of completion API calls made
    response,     \* the completion text received
    schema,       \* what generateSchema returned
    fellBack,     \* generateSchema's catch block ran
    sql,          \* what generateSQL returned
    file,         \* the content of samples/blog-schema.sql
    apc,          \* api.ts: position of the fetch handler
    request,      \* the request being handled
    served,       \* number of requests the handler was called with
    responses     \* the responses returned so far, each with its request

benchVars == <<pc, opIdx, meas, inflight, now, results, invocations, report,
               mongoOpen, coldOpen>>

genVars == <<gpc, apiCalls, response, schema, fellBack, sql, file>>

apiVars == <<apc, request, served, responses>>

vars == <<benchVars, genVars, apiVars>>

----------------------------------------------------------------------------
(* Bounds *)

\* testData has 10000 rows (benchmark.ts:59); the model inserts this many
TestDataLength == 2
\* the clock stops advancing at MaxClock
MaxClock == 1
\* the test driver makes at most this many measureOperation invocations
MaxInvocations == 2
\* a completion has at most this many lexemes before and after its core
MaxPad == 1
\* a schema given to generateSQL has at most this many tables, fields and
\* indexes in all
MaxSize == 5
\* the fetch handler is called with at most this many requests
MaxRequests == 2

----------------------------------------------------------------------------
(* Values thrown by the actions passed to measureOperation *)

\* a driver error: an Error with a message
DriverError == [isError |-> TRUE, message |-> "connection refused"]
\* an Error constructed with no message
EmptyError == [isError |-> TRUE, message |-> ""]
\* the error object of a Supabase response, thrown as it is: not an Error
SupabaseError == [isError |-> FALSE, message |-> "permission denied"]

NoMeas == [active |-> FALSE]

----------------------------------------------------------------------------
(* DatabaseBenchmark.measureOperation *)

\* the message recorded for a caught value
ErrorMessage(error) ==
    IF error.isError THEN error.message ELSE "Unknown error"

\* the try branch: fn() completed
RecordSuccess(res, database, operation, duration) ==
    Append(res, [database |-> database, operation |-> operation,
                 duration |-> duration, latency |-> duration,
                 success |-> TRUE])

\* mutant: the catch branch records nothing
RecordFailure_Lost(res, database, operation, duration, error) == res

\* the catch branch: fn() raised error
RecordFailure(res, database, operation, duration, error) ==
    Append(res, [database |-> database, operation |-> operation,
                 duration |-> duration, latency |-> 0,
                 success |-> FALSE, error |-> ErrorMessage(error)])

\* mutant: the calls of fn are all issued at once, none awaited
Issue_NoAwait(database, fn, ip) ==
    IF ip = 1
      THEN {[database |-> database, call |-> fn.calls[i], idx |-> i] :
              i \in 1..Len(fn.calls)}
      ELSE {}

\* the backend calls fn issues when it reaches its ip-th await: one, awaited
\* before the next is issued
Issue(database, fn, ip) ==
    {[database |-> database, call |-> fn.calls[ip], idx |-> ip]}

\* mutant: the catch branch rethrows, up to main's catch
AfterCatch_Rethrow(p) == "catch"

\* where the caller of measureOperation continues after the catch branch: the
\* error is swallowed, the caller goes on
AfterCatch(p) == p

\* the effect of a settled call on the cold-start clients
ColdAfter(call, n) ==
    CASE call = "cold.connect" -> n + 1
      [] call = "cold.close"   -> n - 1
      [] OTHER                 -> n

\* measureOperation(database, operation, fn) up to its await of fn()
measureOperation(database, operation, fn) ==
    /\ meas = NoMeas
    /\ meas' = [active |-> TRUE, database |-> database, operation |-> operation,
                fn |-> fn, start |-> now, ip |-> 1]
    /\ inflight' = inflight \cup Issue(database, fn, 1)
    /\ invocations' = invocations + 1
    /\ UNCHANGED <<now, results, report, mongoOpen, coldOpen>>

\* the awaited call c of fn() resolves: fn goes on to its next await, or
\* completes and the try branch records the result
FnResolve(c) ==
    /\ meas # NoMeas
    /\ c \in inflight
    /\ c.idx = meas.ip
    /\ coldOpen' = ColdAfter(c.call, coldOpen)
    /\ IF meas.ip < Len(meas.fn.calls)
         THEN /\ meas' = [meas EXCEPT !.ip = @ + 1]
              /\ inflight' = (inflight \ {c})
                               \cup Issue(meas.database, meas.fn, meas.ip + 1)
              /\ UNCHANGED <<results, opIdx, pc>>
         ELSE /\ results' = RecordSuccess(results, meas.database,
                                          meas.operation, now - meas.start)
              /\ meas' = NoMeas
              /\ inflight' = inflight \ {c}
              /\ opIdx' = opIdx + 1
              /\ UNCHANGED pc
    /\ UNCHANGED <<now, invocations, report, mongoOpen>>

\* the awaited call c of fn() fails (a Supabase call resolves with an error
\* object, which fn throws): fn() raises error and the catch branch records it
FnReject(c, error) ==
    /\ meas # NoMeas
    /\ c \in inflight
    /\ c.idx = meas.ip
    /\ error \in meas.fn.throws
    /\ results' = RecordFailure(results, meas.database, meas.operation,
                                now - meas.start, error)
    /\ meas' = NoMeas
    /\ inflight' = inflight \ {c}
    /\ opIdx' = opIdx + 1
    /\ pc' = AfterCatch(pc)
    /\ UNCHANGED <<now, invocations, report, mongoOpen, coldOpen>>

\* time passes while a backend call is pending
Tick ==
    /\ inflight # {}
    /\ now < MaxClock
    /\ now' = now + 1
    /\ UNCHANGED <<pc, opIdx, meas, inflight, results, invocations, report,
                   mongoOpen, coldOpen>>

----------------------------------------------------------------------------
(* The workload runners: each a fixed sequence of measureOperation calls *)

Timed(database, operation, calls, throws) ==
    [database |-> database, operation |-> operation,
     fn |-> [calls |-> calls, throws |-> throws]]

runWriteTest ==
    << Timed("Neon", "Write 10k rows",
             [i \in 1..TestDataLength |-> "insert"], {DriverError}),
       Timed("Supabase", "Write 10k rows", <<"insert">>,
             {SupabaseError}),
       Timed("MongoDB", "Write 10k rows", <<"insertMany">>, {DriverError}) >>

runReadTest ==
    << Timed("Neon", "Simple Query", <<"select">>, {DriverError}),
       Timed("Supabase", "Simple Query", <<"select">>,
             {SupabaseError}),
       Timed("MongoDB", "Simple Query", <<"find">>, {DriverError}),
       Timed("Neon", "Complex Query", <<"select">>, {DriverError}),
       Timed("Supabase", "Complex Query", <<"select">>,
             {SupabaseError}),
       Timed("MongoDB", "Complex Query", <<"aggregate">>, {DriverError}) >>

runColdStartTest ==
    << Timed("Neon", "Cold Start", <<"select">>, {DriverError}),
       Timed("MongoDB", "Cold Start",
             <<"cold.connect", "findOne", "cold.close">>, {DriverError}) >>

Runners == {"runWriteTest", "runReadTest", "runColdStartTest"}

Runner(name) ==
    CASE name = "runWriteTest"     -> runWriteTest
      [] name = "runReadTest"      -> runReadTest
      [] name = "runColdStartTest" -> runColdStartTest

\* main's order of the runners, then printResults
AfterRunner(name) ==
    CASE name = "runWriteTest"     -> "runReadTest"
      [] name = "runReadTest"      -> "runColdStartTest"
      [] name = "runColdStartTest" -> "printResults"

\* the runner at pc awaits its next measureOperation
RunnerInvoke ==
    /\ pc \in Runners
    /\ opIdx <= Len(Runner(pc))
    /\ LET t == Runner(pc)[opIdx]
       IN  measureOperation(t.database, t.operation, t.fn)
    /\ UNCHANGED <<pc, opIdx>>

\* the runner at pc has awaited its last measureOperation and returns to main
RunnerReturn ==
    /\ pc \in Runners
    /\ meas = NoMeas
    /\ opIdx > Len(Runner(pc))
    /\ pc' = AfterRunner(pc)
    /\ opIdx' = 1
    /\ UNCHANGED <<meas, inflight, now, results, invocations, report,
                   mongoOpen, coldOpen>>

----------------------------------------------------------------------------
(* DatabaseBenchmark.printResults *)

\* the key of a result's group
Key(result) == result.database \o "-" \o result.operation

\* mutant: a result with a key already seen replaces the group
GroupStep_Overwrite(acc, result) ==
    IF \E i \in 1..Len(acc) : acc[i].key = result.database \o "-" \o result.operation
      THEN [i \in 1..Len(acc) |->
              IF acc[i].key = result.database \o "-" \o result.operation
                THEN [acc[i] EXCEPT !.results = <<result>>]
                ELSE acc[i]]
      ELSE Append(acc, [key |-> result.database \o "-" \o result.operation,
                        results |-> <<result>>])

\* one step of the grouping reduce: acc is the object built so far, its keys
\* in insertion order
GroupStep(acc, result) ==
    LET key == Key(result)
    IN  IF \E i \in 1..Len(acc) : acc[i].key = key
          THEN [i \in 1..Len(acc) |->
                  IF acc[i].key = key
                    THEN [acc[i] EXCEPT !.results = Append(@, result)]
                    ELSE acc[i]]
          ELSE Append(acc, [key |-> key, results |-> <<result>>])

\* the reduce over the first n results
RECURSIVE GroupFrom(_, _)
GroupFrom(res, n) ==
    IF n = 0 THEN <<>> ELSE GroupStep(GroupFrom(res, n - 1), res[n])

groupedResults(res) == GroupFrom(res, Len(res))

\* results.reduce((sum, r) => sum + r.duration, 0)
RECURSIVE SumDuration(_, _)
SumDuration(sum, rs) ==
    IF rs = <<>> THEN sum ELSE SumDuration(sum + Head(rs).duration, Tail(rs))

\* results.filter(r => r.success)
SuccessOnly(rs) == SelectSeq(rs, LAMBDA r : r.success)

\* results.filter(r => !r.success).map(r => r.error)
ErrorsOf(rs) ==
    LET failed == SelectSeq(rs, LAMBDA r : ~r.success)
    IN  [i \in 1..Len(failed) |-> failed[i].error]

\* mutant: the mean of the successful entries only
avgDuration_SuccessOnly(rs) ==
    [num |-> SumDuration(0, SelectSeq(rs, LAMBDA r : r.success)),
     den |-> Len(SelectSeq(rs, LAMBDA r : r.success))]

avgDuration(rs) == [num |-> SumDuration(0, rs), den |-> Len(rs)]

successRate(rs) == [num |-> Len(SuccessOnly(rs)) * 100, den |-> Len(rs)]

\* mutant: the errors are printed for every group
ReportEntry_Always(g) ==
    [key |-> g.key, avgDuration |-> avgDuration(g.results),
     successRate |-> successRate(g.results),
     errors |-> ErrorsOf(g.results)]

\* what is printed for one group; the errors only below 100%
ReportEntry(g) ==
    LET line == [key |-> g.key, avgDuration |-> avgDuration(g.results),
                 successRate |-> successRate(g.results)]
    IN  IF line.successRate.num < 100 * line.successRate.den
          THEN [key |-> line.key, avgDuration |-> line.avgDuration,
                successRate |-> line.successRate,
                errors |-> ErrorsOf(g.results)]
          ELSE line

printResults(res) ==
    LET grouped == groupedResults(res)
    IN  [i \in 1..Len(grouped) |-> ReportEntry(grouped[i])]

\* nothing printed yet (no key of a group is empty: a key holds "-")
NoReport == <<[key |-> ""]>>

----------------------------------------------------------------------------
(* main of benchmark.ts *)

MainCall(call) == [database |-> "MongoDB", call |-> call, idx |-> 0]

\* await mongoClient.connect() is issued
MainConnect ==
    /\ pc = "main"
    /\ pc' = "connecting"
    /\ inflight' = inflight \cup {MainCall("connect")}
    /\ UNCHANGED <<opIdx, meas, now, results, invocations, report, mongoOpen,
                   coldOpen>>

\* connect settles: the benchmark is constructed and runWriteTest starts, or
\* the error is caught by main's catch
MainConnected(ok) ==
    /\ pc = "connecting"
    /\ inflight' = inflight \ {MainCall("connect")}
    /\ pc' = IF ok THEN "runWriteTest" ELSE "catch"
    /\ mongoOpen' = ok
    /\ UNCHANGED <<opIdx, meas, now, results, invocations, report, coldOpen>>

\* benchmark.printResults()
MainPrintResults ==
    /\ pc = "printResults"
    /\ report' = printResults(results)
    /\ pc' = "finally"
    /\ UNCHANGED <<opIdx, meas, inflight, now, results, invocations, mongoOpen,
                   coldOpen>>

\* console.error('Benchmark failed:', error)
MainCatch ==
    /\ pc = "catch"
    /\ pc' = "finally"
    /\ UNCHANGED <<opIdx, meas, inflight, now, results, invocations, report,
                   mongoOpen, coldOpen>>

\* finally: await mongoClient.close() is issued
MainFinally ==
    /\ pc = "finally"
    /\ pc' = "closing"
    /\ inflight' = inflight \cup {MainCall("close")}
    /\ UNCHANGED <<opIdx, meas, now, results, invocations, report, mongoOpen,
                   coldOpen>>

\* close settles and main returns
MainClosed ==
    /\ pc = "closing"
    /\ inflight' = inflight \ {MainCall("close")}
    /\ mongoOpen' = FALSE
    /\ pc' = "done"
    /\ UNCHANGED <<opIdx, meas, now, results, invocations, report, coldOpen>>

----------------------------------------------------------------------------
(* A test driver of DatabaseBenchmark: any labels, any action *)

DriverLabels ==
    { <<"Neon", "Cold-Start">>, <<"Neon-Cold", "Start">>, <<"Neon", "Start">> }

DriverThrows == {DriverError, EmptyError, SupabaseError}

DriverInvoke(database, operation, error) ==
    /\ pc = "driver"
    /\ invocations < MaxInvocations
    /\ measureOperation(database, operation,
                        [calls |-> <<"call">>, throws |-> {error}])
    /\ UNCHANGED <<pc, opIdx>>

\* mutant: printing empties the results
DriverPrint_Clears ==
    /\ pc = "driver"
    /\ meas = NoMeas
    /\ report' = printResults(results)
    /\ results' = <<>>
    /\ UNCHANGED <<pc, opIdx, meas, inflight, now, invocations, mongoOpen,
                   coldOpen>>

DriverPrint ==
    /\ pc = "driver"
    /\ meas = NoMeas
    /\ report' = printResults(results)
    /\ UNCHANGED <<pc, opIdx, meas, inflight, now, results, invocations,
                   mongoOpen, coldOpen>>

----------------------------------------------------------------------------
(* schema-generator.ts: values.  A JavaScript value is a record tagged by   *)
(* its type; an object keeps its members in order.  A text the code scans   *)
(* is a sequence of lexemes; a text it only builds is a sequence of pieces. *)

Undefined == [t |-> "undefined"]
Null == [t |-> "null"]
Str(s) == [t |-> "string", s |-> s]
Num(n) == [t |-> "number", n |-> n]
Arr(items) == [t |-> "array", items |-> items]
Obj(members) == [t |-> "object", members |-> members]

\* value.key: the member written last wins; a missing member, and any
\* member of a string, a number or an array, is undefined
Get(value, key) ==
    IF value.t = "object"
         /\ \E i \in 1..Len(value.members) : value.members[i][1] = key
      THEN LET i == CHOOSE j \in 1..Len(value.members) :
                      /\ value.members[j][1] = key
                      /\ \A k \in (j + 1)..Len(value.members) :
                            value.members[k][1] # key
           IN  value.members[i][2]
      ELSE Undefined

\* the lexeme of three backquotes, the mark of a code block
Fence == "<fence>"

\* the lexemes [a-z]+ of a completion
Words == {"json", "not", "tables", "null"}

IsStringLit(lexeme) == Len(lexeme) >= 2 /\ SubSeq(lexeme, 1, 1) = "\""

\* the string a string literal denotes
Unquote(lexeme) == SubSeq(lexeme, 2, Len(lexeme) - 1)

----------------------------------------------------------------------------
(* generateSchema: cleaning the response and finding the JSON object *)

\* the end of the run of [a-z]* lexemes that starts at i
RECURSIVE WordsEnd(_, _)
WordsEnd(text, i) ==
    IF i <= Len(text) /\ text[i] \in Words THEN WordsEnd(text, i + 1) ELSE i

\* .replace(/FENCE[a-z]*\n|\nFENCE/g, ''), FENCE the three backquotes
RECURSIVE RemoveFences(_, _)
RemoveFences(text, i) ==
    IF i > Len(text) THEN <<>>
    ELSE IF text[i] = Fence
              /\ WordsEnd(text, i + 1) <= Len(text)
              /\ text[WordsEnd(text, i + 1)] = "\n"
      THEN RemoveFences(text, WordsEnd(text, i + 1) + 1)
    ELSE IF text[i] = "\n" /\ i < Len(text) /\ text[i + 1] = Fence
      THEN RemoveFences(text, i + 2)
    ELSE <<text[i]>> \o RemoveFences(text, i + 1)

\* .replace(/\n/g, '')
RemoveNewlines(text) == SelectSeq(text, LAMBDA lexeme : lexeme # "\n")

\* .replace(/\s+/g, ' ')
RECURSIVE CollapseSpaces(_, _)
CollapseSpaces(text, i) ==
    IF i > Len(text) THEN <<>>
    ELSE IF text[i] = " " /\ i < Len(text) /\ text[i + 1] = " "
      THEN CollapseSpaces(text, i + 1)
    ELSE <<text[i]>> \o CollapseSpaces(text, i + 1)

\* .trim()
RECURSIVE Trim(_)
Trim(text) ==
    IF text = <<>> THEN text
    ELSE IF Head(text) = " " THEN Trim(Tail(text))
    ELSE IF text[Len(text)] = " " THEN Trim(SubSeq(text, 1, Len(text) - 1))
    ELSE text

cleanedResponse(content) ==
    Trim(CollapseSpaces(RemoveNewlines(RemoveFences(content, 1)), 1))

\* .match(/\{.*\}/): from the first "{" to the last "}" after it; <<>> when
\* there is none (a match is never empty)
jsonMatch(text) ==
    LET opens == {i \in 1..Len(text) : text[i] = "{"}
        first == CHOOSE i \in opens : \A j \in opens : i <= j
        closes == {i \in 1..Len(text) : text[i] = "}" /\ i > first}
        last == CHOOSE i \in closes : \A j \in closes : j <= i
    IN  IF opens = {} THEN <<>>
        ELSE IF closes = {} THEN <<>>
        ELSE SubSeq(text, first, last)

----------------------------------------------------------------------------
(* JSON.parse, by recursive descent over the lexemes.  A parse is             *)
(* [ok, value, next]: next is the position after the value.                  *)

ParseFail == [ok |-> FALSE]
Parsed(value, next) == [ok |-> TRUE, value |-> value, next |-> next]

RECURSIVE SkipSpace(_, _)
SkipSpace(text, i) ==
    IF i <= Len(text) /\ text[i] = " " THEN SkipSpace(text, i + 1) ELSE i

RECURSIVE ParseValue(_, _)
RECURSIVE ParseMembers(_, _, _)
RECURSIVE ParseItems(_, _, _)

\* the members of an object after "{" or ",": at i a key is due
ParseMembers(text, i, members) ==
    LET k == SkipSpace(text, i)
        c == SkipSpace(text, k + 1)
    IN  IF k > Len(text) \/ c > Len(text) THEN ParseFail
        ELSE IF ~IsStringLit(text[k]) \/ text[c] # ":" THEN ParseFail
        ELSE LET v == ParseValue(text, c + 1)
             IN  IF ~v.ok THEN ParseFail
                 ELSE LET e == SkipSpace(text, v.next)
                          all == Append(members, <<Unquote(text[k]), v.value>>)
                      IN  IF e > Len(text) THEN ParseFail
                          ELSE IF text[e] = "}" THEN Parsed(Obj(all), e + 1)
                          ELSE IF text[e] = ","
                            THEN ParseMembers(text, e + 1, all)
                          ELSE ParseFail

\* the items of an array after "[" or ",": at i a value is due
ParseItems(text, i, items) ==
    LET v == ParseValue(text, i)
    IN  IF ~v.ok THEN ParseFail
        ELSE LET e == SkipSpace(text, v.next)
                 all == Append(items, v.value)
             IN  IF e > Len(text) THEN ParseFail
                 ELSE IF text[e] = "]" THEN Parsed(Arr(all), e + 1)
                 ELSE IF text[e] = "," THEN ParseItems(text, e + 1, all)
                 ELSE ParseFail

ParseValue(text, i) ==
    LET k == SkipSpace(text, i)
        n == SkipSpace(text, k + 1)
    IN  IF k > Len(text) THEN ParseFail
        ELSE IF text[k] = "{"
          THEN IF n <= Len(text) /\ text[n] = "}"
                 THEN Parsed(Obj(<<>>), n + 1)
                 ELSE ParseMembers(text, k + 1, <<>>)
        ELSE IF text[k] = "["
          THEN IF n <= Len(text) /\ text[n] = "]"
                 THEN Parsed(Arr(<<>>), n + 1)
                 ELSE ParseItems(text, k + 1, <<>>)
        ELSE IF IsStringLit(text[k]) THEN Parsed(Str(Unquote(text[k])), k + 1)
        ELSE IF text[k] = "1" THEN Parsed(Num(1), k + 1)
        ELSE IF text[k] = "null" THEN Parsed(Null, k + 1)
        ELSE ParseFail

\* JSON.parse(text): a value and nothing after it, or a SyntaxError
JSONparse(text) ==
    LET v == ParseValue(text, 1)
    IN  IF v.ok /\ SkipSpace(text, v.next) > Len(text) THEN v ELSE ParseFail

----------------------------------------------------------------------------
(* mockSchema *)

StrArr(strings) == Arr([i \in 1..Len(strings) |-> Str(strings[i])])

Field(name, type, constraints, description) ==
    Obj(<< <<"name", Str(name)>>, <<"type", Str(type)>>,
           <<"constraints", StrArr(constraints)>>,
           <<"description", Str(description)>> >>)

Table(name, fields, relationships, indexes) ==
    Obj(<< <<"name", Str(name)>>, <<"fields", Arr(fields)>>,
           <<"relationships", StrArr(relationships)>>,
           <<"indexes", StrArr(indexes)>> >>)

\* mutant: the fallback holds the users table only
mockSchema_UsersOnly ==
    Arr(<< Table("users",
                 << Field("id", "SERIAL", <<"PRIMARY KEY">>,
                          "Unique identifier for the user") >>,
                 <<>>, <<>>) >>)

mockSchema ==
    Arr(<< Table("users",
                 << Field("id", "SERIAL", <<"PRIMARY KEY">>,
                          "Unique identifier for the user"),
                    Field("username", "VARCHAR(50)", <<"NOT NULL", "UNIQUE">>,
                          "User's username"),
                    Field("email", "VARCHAR(255)", <<"NOT NULL", "UNIQUE">>,
                          "User's email"),
                    Field("created_at", "TIMESTAMP",
                          <<"NOT NULL", "DEFAULT CURRENT_TIMESTAMP">>,
                          "Creation timestamp") >>,
                 <<>>,
                 <<"CREATE INDEX idx_users_username ON users(username);">>),
           Table("posts",
                 << Field("id", "SERIAL", <<"PRIMARY KEY">>,
                          "Unique identifier for the post"),
                    Field("title", "VARCHAR(255)", <<"NOT NULL">>,
                          "Post title"),
                    Field("content", "TEXT", <<"NOT NULL">>, "Post content"),
                    Field("user_id", "INTEGER",
                          <<"NOT NULL", "REFERENCES users(id)">>, "Author ID"),
                    Field("created_at", "TIMESTAMP",
                          <<"NOT NULL", "DEFAULT CURRENT_TIMESTAMP">>,
                          "Creation timestamp") >>,
                 <<"FOREIGN KEY (user_id) REFERENCES users(id)">>,
                 <<"CREATE INDEX idx_posts_user_id ON posts(user_id);">>) >>)

----------------------------------------------------------------------------
(* generateSchema, from the response to the returned schema *)

\* the try block: the tables member of the parsed object, whatever it is;
\* the catch block: mockSchema
ParseSchema(content) ==
    LET jsonStr == jsonMatch(cleanedResponse(content))
        parsed == JSONparse(jsonStr)
    IN  IF jsonStr = <<>> THEN mockSchema
        ELSE IF ~parsed.ok THEN mockSchema
        ELSE Get(parsed.value, "tables")

\* whether the catch block ran
ParseFailed(content) ==
    LET jsonStr == jsonMatch(cleanedResponse(content))
    IN  jsonStr = <<>> \/ ~JSONparse(jsonStr).ok

----------------------------------------------------------------------------
(* generateSQL.  The text built is kept as the sequence of its pieces.     *)

\* for (const x of value): an array gives its items, a string its characters
Iterable(value) == value.t \in {"array", "string"}

Elements(value) ==
    IF value.t = "array" THEN value.items
    ELSE [i \in 1..Len(value.s) |-> Str(SubSeq(value.s, i, i))]

RECURSIVE ToStr(_)
RECURSIVE JoinStr(_, _, _)

\* items.slice(i - 1).join(sep): null and undefined give the empty string
JoinStr(items, sep, i) ==
    IF i > Len(items) THEN ""
    ELSE (IF items[i].t \in {"undefined", "null"} THEN "" ELSE ToStr(items[i]))
         \o (IF i < Len(items) THEN sep ELSE "")
         \o JoinStr(items, sep, i + 1)

\* String(value), as a template literal converts it
ToStr(value) ==
    CASE value.t = "string"    -> value.s
      [] value.t = "number"    -> ToString(value.n)
      [] value.t = "undefined" -> "undefined"
      [] value.t = "null"      -> "null"
      [] value.t = "array"     -> JoinStr(value.items, ",", 1)
      [] value.t = "object"    -> "[object Object]"

\* reading a member of undefined or null is a TypeError
HasMembers(value) == value.t \notin {"undefined", "null"}

\* field.constraints.join(' ') and the column line of the template
ColumnLine(field) ==
    <<"  ", ToStr(Get(field, "name")), " ", ToStr(Get(field, "type")), " ",
      JoinStr(Get(field, "constraints").items, " ", 1)>>

\* lines.slice(i - 1).join(sep), each line a sequence of pieces
RECURSIVE JoinPieces(_, _, _)
JoinPieces(lines, sep, i) ==
    IF i > Len(lines) THEN <<>>
    ELSE lines[i] \o (IF i < Len(lines) THEN <<sep>> ELSE <<>>)
                  \o JoinPieces(lines, sep, i + 1)

\* mutant: the last field is left out
Columns_DropLast(fields) ==
    JoinPieces([i \in 1..(Len(fields) - 1) |-> ColumnLine(fields[i])], ",\n", 1)

\* table.fields.map(...).join(',\n')
Columns(fields) ==
    JoinPieces([i \in 1..Len(fields) |-> ColumnLine(fields[i])], ",\n", 1)

\* the CREATE TABLE statement pushed for a table
CreateTable(table) ==
    <<"\nCREATE TABLE ", ToStr(Get(table, "name")), " (\n">>
        \o Columns(Get(table, "fields").items) \o <<"\n);">>

\* the statements pushed for one table: its CREATE TABLE, then its indexes
TableStatements(table) ==
    LET indexes == Elements(Get(table, "indexes"))
    IN  <<CreateTable(table)>>
          \o [i \in 1..Len(indexes) |->
                <<IF indexes[i].t \in {"undefined", "null"}
                    THEN "" ELSE ToStr(indexes[i])>>]

\* the loop body runs without a TypeError for this table
TableRenders(table) ==
    /\ HasMembers(table)
    /\ Get(table, "fields").t = "array"
    /\ \A i \in 1..Len(Get(table, "fields").items) :
          /\ HasMembers(Get(table, "fields").items[i])
          /\ Get(Get(table, "fields").items[i], "constraints").t = "array"
    /\ Iterable(Get(table, "indexes"))

\* sqlStatements after the tables from the i-th on have been rendered
RECURSIVE sqlStatements(_, _)
sqlStatements(tables, i) ==
    IF i > Len(tables) THEN <<>>
    ELSE TableStatements(tables[i]) \o sqlStatements(tables, i + 1)

\* generateSQL(given): the text returned, or a TypeError raised
Raises == [ok |-> FALSE]

generateSQL(given) ==
    IF ~Iterable(given) THEN Raises
    ELSE IF \E i \in 1..Len(Elements(given)) :
                ~TableRenders(Elements(given)[i]) THEN Raises
    ELSE [ok |-> TRUE,
          sql |-> JoinPieces(sqlStatements(Elements(given), 1), "\n\n", 1)]

----------------------------------------------------------------------------
(* main of schema-generator.ts *)

NoText == <<"(none)">>

\* await groq.chat.completions.create(...) is issued
GenPrompt ==
    /\ gpc = "prompting"
    /\ apiCalls' = apiCalls + 1
    /\ gpc' = "awaiting"
    /\ UNCHANGED <<response, schema, fellBack, sql, file>>

\* mutant: a failed call is answered by the fallback schema
GenNoResponse_Fallback ==
    /\ gpc = "awaiting"
    /\ schema' = mockSchema
    /\ fellBack' = TRUE
    /\ gpc' = "rendering"
    /\ UNCHANGED <<apiCalls, response, sql, file>>

\* the call fails, or the completion has no content: the error leaves
\* generateSchema and is caught by main's catch
GenNoResponse ==
    /\ gpc = "awaiting"
    /\ gpc' = "failed"
    /\ UNCHANGED <<apiCalls, response, schema, fellBack, sql, file>>

\* mutant: a completion that does not parse is asked for again
GenResponse_Retry(text) ==
    /\ gpc = "awaiting"
    /\ text # <<>>
    /\ response' = text
    /\ schema' = IF ParseFailed(text) THEN schema ELSE ParseSchema(text)
    /\ fellBack' = FALSE
    /\ gpc' = IF ParseFailed(text) THEN "prompting" ELSE "rendering"
    /\ UNCHANGED <<apiCalls, sql, file>>

\* the completion arrives with the content text: the rest of generateSchema
GenResponse(text) ==
    /\ gpc = "awaiting"
    /\ text # <<>>
    /\ response' = text
    /\ schema' = ParseSchema(text)
    /\ fellBack' = ParseFailed(text)
    /\ gpc' = "rendering"
    /\ UNCHANGED <<apiCalls, sql, file>>

\* await generateSQL(schema); a TypeError is caught by main's catch
GenRender ==
    /\ gpc = "rendering"
    /\ LET r == generateSQL(schema)
       IN  IF r.ok
             THEN sql' = r.sql /\ gpc' = "writing"
             ELSE sql' = sql /\ gpc' = "failed"
    /\ UNCHANGED <<apiCalls, response, schema, fellBack, file>>

\* fs.writeFileSync('samples/blog-schema.sql', sql), which may raise
GenWrite(ok) ==
    /\ gpc = "writing"
    /\ file' = IF ok THEN sql ELSE file
    /\ gpc' = IF ok THEN "done" ELSE "failed"
    /\ UNCHANGED <<apiCalls, response, schema, fellBack, sql>>

GenInit(p) ==
    /\ gpc = p
    /\ apiCalls = 0
    /\ response = NoText
    /\ schema = Undefined
    /\ fellBack = FALSE
    /\ sql = NoText
    /\ file = NoText

----------------------------------------------------------------------------
(* workers/api.ts: the fetch handler.  A response is kept with the request *)
(* it answers and with whether an error was raised while handling it.      *)

Methods == {"GET", "POST", "PUT"}

Paths == {"/api/items", "/api/items/search", "/api/users"}

NoRequest == [method |-> "", path |-> ""]

\* the Content-Type of a Response made of a string with no headers given
TextPlain == "text/plain;charset=UTF-8"

\* return new Response(...): the handler is done with the request
Respond(status, contentType, body, raised) ==
    /\ responses' = Append(responses,
                           [request |-> request', status |-> status,
                            contentType |-> contentType, body |-> body,
                            raised |-> raised])
    /\ apc' = "idle"

\* the catch branch
InternalServerError ==
    Respond(500, "application/json",
            "{\"error\":\"Internal Server Error\"}", TRUE)

\* fetch(request, env, ctx) up to its first await or its return
Fetch(method, path) ==
    /\ apc = "idle"
    /\ served < MaxRequests
    /\ served' = served + 1
    /\ request' = [method |-> method, path |-> path]
    /\ CASE path = "/api/items" /\ method = "GET" ->
              apc' = "query" /\ UNCHANGED responses
         [] path = "/api/items" /\ method = "POST" ->
              apc' = "body" /\ UNCHANGED responses
         [] path = "/api/items/search" /\ method = "GET" ->
              apc' = "query" /\ UNCHANGED responses
         [] path \in {"/api/items", "/api/items/search"}
              /\ method \notin {"GET", "POST"} ->
              Respond(405, TextPlain, "Method Not Allowed", FALSE)
         [] path = "/api/items/search" /\ method = "POST" ->
              Respond(405, TextPlain, "Method Not Allowed", FALSE)
         [] OTHER ->
              Respond(404, TextPlain, "Not Found", FALSE)

Bodies == {"object", "null", "unreadable"}

\* await request.json() settles: an object goes on to the INSERT; an
\* unreadable body, or null (which cannot be destructured), raises
BodySettle(body) ==
    /\ apc = "body"
    /\ IF body = "object"
         THEN apc' = "query" /\ UNCHANGED <<request, responses>>
         ELSE request' = request /\ InternalServerError
    /\ UNCHANGED served

\* the awaited query settles
QuerySettle(ok) ==
    /\ apc = "query"
    /\ request' = request
    /\ IF ~ok THEN InternalServerError
       ELSE IF request.method = "POST"
         THEN Respond(201, "application/json", "{item}", FALSE)
       ELSE Respond(200, "application/json", "[items]", FALSE)
    /\ UNCHANGED served

ApiInit(p) ==
    /\ apc = p
    /\ request = NoRequest
    /\ served = 0
    /\ responses = <<>>

----------------------------------------------------------------------------
(* The completions a run may receive, and the schemas generateSQL is given *)

PadLexemes == {"{", "}", " ", "\n", Fence, "json"}

RECURSIVE Pads(_)
Pads(n) ==
    IF n = 0 THEN {<<>>}
    ELSE Pads(n - 1) \cup {Append(pad, x) : pad \in Pads(n - 1), x \in PadLexemes}

Cores ==
    { <<>>,
      <<"not", " ", "json">>,
      <<"{", " ", "tables", ":", " ", "[">>,
      <<"{", "\"foo\"", ":", " ", "1", "}">>,
      <<"{", "\"tables\"", ":", " ", "null", "}">>,
      <<"{", "\"tables\"", ":", "[", "]", "}">>,
      <<"{", "\"tables\"", ":", "[", "{", "\"name\"", ":", "\"users\"", ",",
        "\"fields\"", ":", "[", "{", "\"name\"", ":", "\"id\"", ",",
        "\"type\"", ":", "\"SERIAL\"", ",", "\"constraints\"", ":", "[",
        "\"PRIMARY KEY\"", "]", "}", "]", ",", "\"indexes\"", ":", "[",
        "\"CREATE INDEX idx\"", "]", "}", "]", "}">> }

Completions ==
    {pre \o core \o post : pre \in Pads(MaxPad), core \in Cores,
                           post \in Pads(MaxPad)} \ {<<>>}

FieldChoices ==
    { [name |-> "id", type |-> "SERIAL", constraints |-> <<"PRIMARY KEY">>],
      [name |-> "email", type |-> "TEXT",
       constraints |-> <<"NOT NULL", "UNIQUE">>],
      [name |-> "bio", type |-> "TEXT", constraints |-> <<>>] }

IndexChoices == {"CREATE INDEX a ON t(a);", "CREATE INDEX b ON t(b);"}

TableNames == {"users", "posts"}

\* the tables of a schema as plain records, at most n parts in all
RECURSIVE RawSchemas(_)
RawSchemas(n) ==
    IF n = 0 THEN {<<>>}
    ELSE LET smaller == RawSchemas(n - 1)
             started == {raw \in smaller : raw # <<>>}
         IN  smaller
               \cup {Append(raw, [name |-> nm, fields |-> <<>>, indexes |-> <<>>]) :
                       raw \in smaller, nm \in TableNames}
               \cup {[raw EXCEPT ![Len(raw)].fields = Append(@, f)] :
                       raw \in started, f \in FieldChoices}
               \cup {[raw EXCEPT ![Len(raw)].indexes = Append(@, ix)] :
                       raw \in started, ix \in IndexChoices}

\* the TableSchema[] value of plain records
ToSchema(raw) ==
    Arr([i \in 1..Len(raw) |->
           Table(raw[i].name,
                 [j \in 1..Len(raw[i].fields) |->
                    Field(raw[i].fields[j].name, raw[i].fields[j].type,
                          raw[i].fields[j].constraints, "")],
                 <<>>, raw[i].indexes)])

Schemas == {ToSchema(raw) : raw \in RawSchemas(MaxSize)}

----------------------------------------------------------------------------
(* Specifications *)

BenchInit(p) ==
    /\ pc = p
    /\ opIdx = 1
    /\ meas = NoMeas
    /\ inflight = {}
    /\ now = 0
    /\ results = <<>>
    /\ invocations = 0
    /\ report = NoReport
    /\ mongoOpen = FALSE
    /\ coldOpen = 0

Settle ==
    \E c \in inflight :
        \/ FnResolve(c)
        \/ \E error \in DriverThrows : FnReject(c, error)

\* one run of benchmark.ts
Init == BenchInit("main") /\ GenInit("idle") /\ ApiInit("off")

Next ==
    \/ MainConnect /\ UNCHANGED <<genVars, apiVars>>
    \/ \E ok \in BOOLEAN : MainConnected(ok) /\ UNCHANGED <<genVars, apiVars>>
    \/ RunnerInvoke /\ UNCHANGED <<genVars, apiVars>>
    \/ RunnerReturn /\ UNCHANGED <<genVars, apiVars>>
    \/ Settle /\ UNCHANGED <<genVars, apiVars>>
    \/ Tick /\ UNCHANGED <<genVars, apiVars>>
    \/ MainPrintResults /\ UNCHANGED <<genVars, apiVars>>
    \/ MainCatch /\ UNCHANGED <<genVars, apiVars>>
    \/ MainFinally /\ UNCHANGED <<genVars, apiVars>>
    \/ MainClosed /\ UNCHANGED <<genVars, apiVars>>

Spec == Init /\ [][Next]_vars

\* one run of main with the clock standing still: time has no part in the
\* control flow
Run ==
    \/ MainConnect /\ UNCHANGED <<genVars, apiVars>>
    \/ \E ok \in BOOLEAN : MainConnected(ok) /\ UNCHANGED <<genVars, apiVars>>
    \/ RunnerInvoke /\ UNCHANGED <<genVars, apiVars>>
    \/ RunnerReturn /\ UNCHANGED <<genVars, apiVars>>
    \/ Settle /\ UNCHANGED <<genVars, apiVars>>
    \/ MainPrintResults /\ UNCHANGED <<genVars, apiVars>>
    \/ MainCatch /\ UNCHANGED <<genVars, apiVars>>
    \/ MainFinally /\ UNCHANGED <<genVars, apiVars>>
    \/ MainClosed /\ UNCHANGED <<genVars, apiVars>>

\* a step that moves the control flow on.  The step out of printResults is
\* named by its change of pc: it is enabled exactly when MainPrintResults is,
\* and once pc has left "printResults" it is never enabled again
Progress ==
    \/ MainConnect /\ UNCHANGED <<genVars, apiVars>>
    \/ \E ok \in BOOLEAN : MainConnected(ok) /\ UNCHANGED <<genVars, apiVars>>
    \/ RunnerInvoke /\ UNCHANGED <<genVars, apiVars>>
    \/ RunnerReturn /\ UNCHANGED <<genVars, apiVars>>
    \/ Settle /\ UNCHANGED <<genVars, apiVars>>
    \/ /\ pc = "printResults"
       /\ pc' = "finally"
       /\ UNCHANGED <<opIdx, meas, inflight, now, results, invocations,
                      report, mongoOpen, coldOpen>>
       /\ UNCHANGED <<genVars, apiVars>>
    \/ MainCatch /\ UNCHANGED <<genVars, apiVars>>
    \/ MainFinally /\ UNCHANGED <<genVars, apiVars>>
    \/ MainClosed /\ UNCHANGED <<genVars, apiVars>>

FairSpec == Init /\ [][Run]_vars /\ WF_vars(Progress)

\* the test driver
DriverInit == BenchInit("driver") /\ GenInit("idle") /\ ApiInit("off")

DriverNext ==
    \/ /\ \E l \in DriverLabels, error \in DriverThrows :
             DriverInvoke(l[1], l[2], error)
       /\ UNCHANGED <<genVars, apiVars>>
    \/ DriverPrint /\ UNCHANGED <<genVars, apiVars>>
    \/ Settle /\ UNCHANGED <<genVars, apiVars>>
    \/ Tick /\ UNCHANGED <<genVars, apiVars>>

DriverSpec == DriverInit /\ [][DriverNext]_vars

\* one run of schema-generator.ts
GenSpecInit ==
    BenchInit("idle") /\ GenInit("prompting") /\ ApiInit("off")

GenNext ==
    \/ GenPrompt /\ UNCHANGED <<benchVars, apiVars>>
    \/ GenNoResponse /\ UNCHANGED <<benchVars, apiVars>>
    \/ (\E text \in Completions : GenResponse(text)) /\ UNCHANGED <<benchVars, apiVars>>
    \/ GenRender /\ UNCHANGED <<benchVars, apiVars>>
    \/ (\E ok \in BOOLEAN : GenWrite(ok)) /\ UNCHANGED <<benchVars, apiVars>>

GenSpec == GenSpecInit /\ [][GenNext]_vars

\* a change of the position in main.  It is enabled exactly when GenNext is:
\* in each position before the end main has a step to take
GenProgress ==
    /\ gpc \in {"prompting", "awaiting", "rendering", "writing"}
    /\ gpc' \in {"awaiting", "rendering", "writing", "done", "failed"}
    /\ gpc' # gpc
    /\ UNCHANGED <<apiCalls, response, schema, fellBack, sql, file>>
    /\ UNCHANGED <<benchVars, apiVars>>

\* the run does not stop in a position where main has a step to take
GenFairSpec == GenSpecInit /\ [][GenNext]_vars /\ WF_vars(GenProgress)

\* the handler, called with one request after another
ApiSpecInit == BenchInit("idle") /\ GenInit("idle") /\ ApiInit("idle")

ApiNext ==
    \/ /\ \E method \in Methods, path \in Paths : Fetch(method, path)
       /\ UNCHANGED <<benchVars, genVars>>
    \/ /\ \E body \in Bodies : BodySettle(body)
       /\ UNCHANGED <<benchVars, genVars>>
    \/ /\ \E ok \in BOOLEAN : QuerySettle(ok)
       /\ UNCHANGED <<benchVars, genVars>>

ApiSpec == ApiSpecInit /\ [][ApiNext]_vars

\* generateSQL and the write, for any schema of the declared type
RenderInit ==
    /\ BenchInit("idle")
    /\ ApiInit("off")
    /\ gpc = "rendering"
    /\ apiCalls = 1
    /\ response = NoText
    /\ schema \in Schemas
    /\ fellBack = FALSE
    /\ sql = NoText
    /\ file = NoText

RenderNext ==
    \/ GenRender /\ UNCHANGED <<benchVars, apiVars>>
    \/ (\E ok \in BOOLEAN : GenWrite(ok)) /\ UNCHANGED <<benchVars, apiVars>>

RenderSpec == RenderInit /\ [][RenderNext]_vars

----------------------------------------------------------------------------
(* Claims about the Operation Timer and the workload runners *)

Failed(r) == ~r.success

\* C1: the results hold one entry for each measureOperation invocation that
\* has returned, and none for the one still awaiting its action: no entry
\* is lost or duplicated, whatever mix of actions succeeds or fails.
C1_OneResultPerInvocation ==
    Len(results) = invocations - (IF meas = NoMeas THEN 0 ELSE 1)

C1_Witness ==
    /\ pc = "driver"
    /\ meas = NoMeas
    /\ invocations = 2
    /\ Len(results) = 2
    /\ Failed(results[1])
    /\ results[2].success

\* C2: every recorded failure has success = FALSE and a non-empty error
\* message, and every recorded success has success = TRUE and no error
\* message, for every value the action raises (an Error with any message,
\* the empty one included, or a value that is not an Error).
C2_FailureHasMessage ==
    \A i \in 1..Len(results) :
        IF results[i].success
          THEN "error" \notin DOMAIN results[i]
          ELSE "error" \in DOMAIN results[i] /\ results[i].error # ""

NumTimed == Len(runWriteTest) + Len(runReadTest) + Len(runColdStartTest)

\* C3: once the runners have started, whichever timed operations fail, the
\* run reaches printResults and prints the report, having invoked every
\* timed operation of the three runners.
C3_FailureNeverFatal ==
    (pc = "runWriteTest")
        ~> (pc = "finally" /\ report # NoReport /\ invocations = NumTimed)

C3_Witness ==
    /\ pc = "finally"
    /\ report # NoReport
    /\ Len(results) = NumTimed
    /\ \A i \in 1..Len(results) : Failed(results[i])

Backends == {"Neon", "Supabase", "MongoDB"}

Workloads == {"Write 10k rows", "Simple Query", "Complex Query", "Cold Start"}

EntriesOf(backend, workload) ==
    {i \in 1..Len(results) :
        results[i].database = backend /\ results[i].operation = workload}

\* C5: when the three runners have completed, the results hold exactly one
\* entry for every pair of a backend and a workload.
C5_EveryBackendEveryWorkload ==
    pc = "printResults" =>
        \A b \in Backends, w \in Workloads : Cardinality(EntriesOf(b, w)) = 1

\* the timed operations in the order main runs them
DeclaredOrder == runWriteTest \o runReadTest \o runColdStartTest

\* C10: at most one backend call is in flight, it is the call the awaiting
\* measureOperation has reached, an operation's result is appended before
\* the next operation starts, and the results are in declaration order.
C10_OneCallAtATime ==
    /\ Cardinality(inflight) <= 1
    /\ meas # NoMeas =>
          /\ inflight = Issue(meas.database, meas.fn, meas.ip)
          /\ invocations = Len(results) + 1
    /\ meas = NoMeas => invocations = Len(results)
    /\ Len(results) <= Len(DeclaredOrder)
    /\ \A i \in 1..Len(results) :
          /\ results[i].database = DeclaredOrder[i].database
          /\ results[i].operation = DeclaredOrder[i].operation

\* the second row insert of the bulk write is in flight, the clock has moved
C10_Witness ==
    /\ meas # NoMeas
    /\ meas.operation = "Write 10k rows"
    /\ inflight = {[database |-> "Neon", call |-> "insert", idx |-> 2]}
    /\ now > meas.start

----------------------------------------------------------------------------
(* Claims about the Aggregator and Reporter *)

\* the positions of the results with the key k
Members(k) == {j \in 1..Len(results) : Key(results[j]) = k}

RECURSIVE DurationOver(_)
DurationOver(S) ==
    IF S = {} THEN 0
    ELSE LET j == CHOOSE x \in S : TRUE
         IN  results[j].duration + DurationOver(S \ {j})

\* q is the quotient a / b
IsQuotient(q, a, b) == q.den # 0 /\ q.num * b = a * q.den

\* C6: for every group of the report, with N the number of results of the
\* group and K the number of them with success = TRUE, the success rate is
\* (K / N) * 100 and the average duration is the sum of the durations of
\* all N entries, failed ones included, divided by N.
C6_RateAndMean ==
    LET rep == printResults(results)
    IN  \A i \in 1..Len(rep) :
          LET M == Members(rep[i].key)
              N == Cardinality(M)
              K == Cardinality({j \in M : results[j].success})
          IN  /\ N >= 1
              /\ IsQuotient(rep[i].successRate, K * 100, N)
              /\ IsQuotient(rep[i].avgDuration, DurationOver(M), N)

\* a printed group of two, one failed after 1 ms and one succeeded in 0 ms
C6_Witness ==
    /\ report = printResults(results)
    /\ Len(results) = 2
    /\ Len(report) = 1
    /\ Failed(results[1]) /\ results[1].duration = 1
    /\ results[2].success /\ results[2].duration = 0
    /\ report[1].successRate = [num |-> 100, den |-> 2]
    /\ report[1].avgDuration = [num |-> 1, den |-> 2]

RECURSIVE GroupSizes(_)
GroupSizes(groups) ==
    IF groups = <<>> THEN 0
    ELSE Len(Head(groups).results) + GroupSizes(Tail(groups))

\* C7: the groups are a partition of the results: no two groups have the
\* same key, a group holds exactly the results of its key (each once, in
\* order), every result's key has a group, and the sizes of the groups sum
\* to the length of the results.
C7_GroupsPartition ==
    LET groups == groupedResults(results)
    IN  /\ \A i, j \in 1..Len(groups) :
              groups[i].key = groups[j].key => i = j
        /\ \A i \in 1..Len(groups) :
              groups[i].results =
                  SelectSeq(results, LAMBDA r : Key(r) = groups[i].key)
        /\ \A k \in 1..Len(results) :
              \E i \in 1..Len(groups) : groups[i].key = Key(results[k])
        /\ GroupSizes(groups) = Len(results)

\* two results of one key have been printed as one group
C7_Witness ==
    /\ report = printResults(results)
    /\ Len(results) = 2
    /\ Key(results[1]) = Key(results[2])
    /\ Len(groupedResults(results)) = 1

----------------------------------------------------------------------------
(* Claims about the Schema Generator *)

Count(text, lexeme) == Cardinality({i \in 1..Len(text) : text[i] = lexeme})

\* the object found in the completion parses and has no tables array
LacksTables(text) ==
    LET parsed == JSONparse(jsonMatch(cleanedResponse(text)))
    IN  parsed.ok /\ Get(parsed.value, "tables").t # "array"

\* C4: generateSchema returns mockSchema for every completion that holds no
\* "{", whose braces are unbalanced, or whose object lacks a tables array.
C4_MalformedFallsBack ==
    (gpc \in {"rendering", "writing", "done", "failed"} /\ response # NoText) =>
        ((\/ Count(response, "{") = 0
          \/ Count(response, "{") # Count(response, "}")
          \/ LacksTables(response)) => schema = mockSchema)

\* the statements of a text: its pieces between the separators
RECURSIVE SplitAt(_, _, _)
SplitAt(pieces, sep, current) ==
    IF pieces = <<>> THEN (IF current = <<>> THEN <<>> ELSE <<current>>)
    ELSE IF Head(pieces) = sep
      THEN <<current>> \o SplitAt(Tail(pieces), sep, <<>>)
    ELSE SplitAt(Tail(pieces), sep, Append(current, Head(pieces)))

StatementsOf(text) == SplitAt(text, "\n\n", <<>>)

\* the members of a set of positions, ascending
RECURSIVE Ascending(_)
Ascending(S) ==
    IF S = {} THEN <<>>
    ELSE LET m == CHOOSE x \in S : \A y \in S : x <= y
         IN  <<m>> \o Ascending(S \ {m})

IsCreateTable(stmt) == stmt # <<>> /\ stmt[1] = "\nCREATE TABLE "

\* the column lines of a CREATE TABLE statement: the name and the type that
\* follow each indentation
ColumnsOf(stmt) ==
    LET at == Ascending({i \in 1..Len(stmt) : stmt[i] = "  "})
    IN  [j \in 1..Len(at) |-> <<stmt[at[j] + 1], stmt[at[j] + 3]>>]

FieldsOf(table) == Get(table, "fields").items
IndexesOf(table) == Get(table, "indexes").items

\* the position of the CREATE TABLE statement of the k-th table
RECURSIVE StatementsBefore(_, _)
StatementsBefore(tables, k) ==
    IF k = 1 THEN 0
    ELSE StatementsBefore(tables, k - 1) + 1 + Len(IndexesOf(tables[k - 1]))

\* C8: the emitted text holds, for each table in source order, one CREATE
\* TABLE statement with the table's name, whose column lines are the
\* table's fields in source order, each once, followed by the table's index
\* strings verbatim, each once and in order; there are as many statements
\* as tables and index strings together.
C8_RendersEveryFieldAndIndex ==
    (gpc \in {"writing", "done"} /\ response = NoText) =>
        LET tables == schema.items
            stmts == StatementsOf(sql)
        IN  /\ Len(stmts) = StatementsBefore(tables, Len(tables) + 1)
            /\ \A k \in 1..Len(tables) :
                 LET at == StatementsBefore(tables, k) + 1
                     fields == FieldsOf(tables[k])
                     indexes == IndexesOf(tables[k])
                 IN  /\ IsCreateTable(stmts[at])
                     /\ stmts[at][2] = Get(tables[k], "name").s
                     /\ ColumnsOf(stmts[at]) =
                          [j \in 1..Len(fields) |->
                             <<Get(fields[j], "name").s,
                               Get(fields[j], "type").s>>]
                     /\ \A m \in 1..Len(indexes) :
                          stmts[at + m] = <<indexes[m].s>>

\* two tables, the first of two different fields and an index, rendered and
\* written
C8_Witness ==
    /\ gpc = "done"
    /\ response = NoText
    /\ file = sql
    /\ Len(schema.items) = 2
    /\ Len(FieldsOf(schema.items[1])) = 2
    /\ FieldsOf(schema.items[1])[1] # FieldsOf(schema.items[1])[2]
    /\ Len(IndexesOf(schema.items[1])) = 1
    /\ Get(schema.items[1], "name") # Get(schema.items[2], "name")

\* the CREATE TABLE statements of a text: the name and the column names
CreateTablesOf(text) ==
    LET creates == SelectSeq(StatementsOf(text), IsCreateTable)
    IN  [k \in 1..Len(creates) |->
           [name |-> creates[k][2],
            columns |-> [j \in 1..Len(ColumnsOf(creates[k])) |->
                           ColumnsOf(creates[k])[j][1]]]]

\* C9: whatever completion made generateSchema fall back, the rendering
\* succeeds and the text holds exactly two CREATE TABLE statements: users
\* (id, username, email, created_at), then posts (id, title, content,
\* user_id, created_at).
C9_FallbackRendersUsersPosts ==
    (fellBack /\ gpc \in {"writing", "done", "failed"}) =>
        /\ sql # NoText
        /\ CreateTablesOf(sql) =
             << [name |-> "users",
                 columns |-> <<"id", "username", "email", "created_at">>],
                [name |-> "posts",
                 columns |-> <<"id", "title", "content", "user_id",
                               "created_at">>] >>

\* a completion with braces that does not parse was answered by the
\* fallback, rendered and written
C9_Witness ==
    /\ fellBack
    /\ gpc = "done"
    /\ file = sql
    /\ Count(response, "{") > 0
    /\ Count(response, "}") > 0

----------------------------------------------------------------------------
(* Claims about the results sequence and the report *)

\* C11: the results sequence is append-only: every step keeps each recorded
\* result at its position with its field values; a step that prints leaves
\* the results unchanged; and printing again with no operation in between
\* gives the same report.
C11_ResultsAppendOnly ==
    [][ /\ Len(results') >= Len(results)
        /\ SubSeq(results', 1, Len(results)) = results
        /\ (report' # report => results' = results)
        /\ (report = printResults(results) /\ results' = results
              => report' = report) ]_vars

\* two results were recorded, and then printed
C11_Witness ==
    /\ Len(results) >= 2
    /\ \E i \in 1..Len(results) : Failed(results[i])
    /\ report # NoReport
    /\ report = printResults(results)

----------------------------------------------------------------------------
(* Claims about the failures of a generation run *)

\* C12: the completion API is called once in a run and never again; when
\* the extraction or the JSON parsing of the completion fails, the fallback
\* schema is substituted at once, and the run goes on to render it and to
\* the write of the SQL file.
C12_ParseFailureNotRetried ==
    /\ [](apiCalls <= 1)
    /\ [](gpc # "prompting" => apiCalls = 1)
    /\ []((response # NoText /\ ParseFailed(response))
            => (fellBack /\ schema = mockSchema))
    /\ (fellBack ~> (sql # NoText /\ gpc \in {"done", "failed"}))

\* a completion in which an object was found that JSON.parse refused: the
\* fallback was rendered and written after the one call
C12_Witness ==
    /\ fellBack
    /\ apiCalls = 1
    /\ jsonMatch(cleanedResponse(response)) # <<>>
    /\ schema = mockSchema
    /\ gpc = "done"
    /\ file = sql

\* C13: when the completion API call fails, or the completion has no
\* content, the error leaves generateSchema and ends the run: the fallback
\* schema is not substituted, no SQL is rendered, the file is not written,
\* and no step follows.
C13_TransportFailureEndsRun ==
    /\ []((gpc = "failed" /\ response = NoText)
            => /\ schema = Undefined
               /\ ~fellBack
               /\ sql = NoText
               /\ file = NoText)
    /\ [][gpc = "awaiting" /\ response' = NoText => gpc' = "failed"]_vars
    /\ [][gpc # "failed"]_vars

\* the one call was made and failed
C13_Witness ==
    /\ gpc = "failed"
    /\ apiCalls = 1
    /\ response = NoText
    /\ sql = NoText

----------------------------------------------------------------------------
(* Claims about the keys of the groups *)

\* the results at the positions i and j are in one group of printResults
SameGroup(i, j) ==
    LET grouped == groupedResults(results)
    IN  \E g \in 1..Len(grouped) :
            /\ \E m \in 1..Len(grouped[g].results) :
                   grouped[g].results[m] = results[i]
            /\ \E m \in 1..Len(grouped[g].results) :
                   grouped[g].results[m] = results[j]

\* C14: two results are in the same group of printResults if and only if
\* they have the same backend label and the same operation label, whatever
\* the labels are.
C14_GroupsByBackendAndOperation ==
    \A i, j \in 1..Len(results) :
        SameGroup(i, j) <=> (/\ results[i].database = results[j].database
                             /\ results[i].operation = results[j].operation)

----------------------------------------------------------------------------
(* Claims about the extraction of the JSON object *)

\* the position of the brace that closes the object opened before i, where
\* depth braces are open; 0 when the text ends first
RECURSIVE ClosingBrace(_, _, _)
ClosingBrace(text, i, depth) ==
    IF i > Len(text) THEN 0
    ELSE IF text[i] = "{" THEN ClosingBrace(text, i + 1, depth + 1)
    ELSE IF text[i] = "}"
      THEN (IF depth = 1 THEN i ELSE ClosingBrace(text, i + 1, depth - 1))
    ELSE ClosingBrace(text, i + 1, depth)

\* the first top-level brace-delimited object of a text, and what follows it
FirstObject(text) ==
    IF Count(text, "{") = 0 THEN [object |-> <<>>, rest |-> <<>>]
    ELSE LET open == CHOOSE i \in 1..Len(text) :
                        /\ text[i] = "{"
                        /\ \A j \in 1..(i - 1) : text[j] # "{"
             close == ClosingBrace(text, open + 1, 1)
         IN  IF close = 0 THEN [object |-> <<>>, rest |-> <<>>]
             ELSE [object |-> SubSeq(text, open, close),
                   rest |-> SubSeq(text, close + 1, Len(text))]

\* C15: when the cleaned completion holds a valid schema object followed by
\* text with another "}", generateSchema returns the tables of that first
\* object.
C15_FirstObjectIsParsed ==
    (gpc \in {"rendering", "writing", "done", "failed"} /\ response # NoText) =>
        LET first == FirstObject(cleanedResponse(response))
            parsed == JSONparse(first.object)
        IN  (/\ first.object # <<>>
             /\ parsed.ok
             /\ Get(parsed.value, "tables").t = "array"
             /\ Count(first.rest, "}") > 0)
                => schema = Get(parsed.value, "tables")

----------------------------------------------------------------------------
(* Claims about the errors of the report *)

\* C16: for every group of the report, the errors are printed if and only
\* if fewer than all of the group's results succeeded, and the printed list
\* holds the error message of each failed result of the group, one for each
\* and in order, and nothing else.
C16_ErrorsBelowFullRate ==
    LET rep == printResults(results)
    IN  \A i \in 1..Len(rep) :
          LET M == Members(rep[i].key)
              N == Cardinality(M)
              K == Cardinality({j \in M : results[j].success})
              failed == Ascending({j \in M : ~results[j].success})
          IN  /\ ("errors" \in DOMAIN rep[i]) <=> (K * 100 < 100 * N)
              /\ "errors" \in DOMAIN rep[i] =>
                   /\ Len(rep[i].errors) = Len(failed)
                   /\ \A m \in 1..Len(failed) :
                        rep[i].errors[m] = results[failed[m]].error

\* two groups were printed, the first with its error, the second without
C16_Witness ==
    /\ report = printResults(results)
    /\ Len(report) = 2
    /\ "errors" \in DOMAIN report[1]
    /\ report[1].errors = <<results[1].error>>
    /\ "errors" \notin DOMAIN report[2]

----------------------------------------------------------------------------
(* Claims about the HTTP handler *)

\* the status the handler is to answer a request with
StandardStatus(req, raised) ==
    IF raised THEN 500
    ELSE IF req.path \notin {"/api/items", "/api/items/search"} THEN 404
    ELSE IF req.method = "GET" THEN 200
    ELSE IF req.method = "POST" /\ req.path = "/api/items" THEN 201
    ELSE 405

\* C17: every request gets exactly one response, and every response is
\* JSON with the standard status: 200 for GET on the two paths, 201 for
\* POST on /api/items, 405 for any other method on them, 404 for any other
\* path, 500 when an error was raised while handling.
C17_JsonWithStandardStatus ==
    /\ Len(responses) = IF apc = "idle" THEN served ELSE served - 1
    /\ \A k \in 1..Len(responses) :
          /\ responses[k].contentType = "application/json"
          /\ responses[k].status =
                StandardStatus(responses[k].request, responses[k].raised)

----------------------------------------------------------------------------
(* Claims about the cold-start client *)

\* C18: the client of the MongoDB cold-start operation is closed before the
\* result of the operation is recorded, also when the operation failed, and
\* no cold-start client is open once runColdStartTest has returned.
C18_ColdClientClosed ==
    /\ (\E i \in 1..Len(results) :
            /\ results[i].database = "MongoDB"
            /\ results[i].operation = "Cold Start") => coldOpen = 0
    /\ pc \in {"printResults", "finally", "closing", "done"} => coldOpen = 0

====
